---- MODULE Spec2Model ----
(***************************************************************************)
(* Diarization segment smoothing (smooth_segments.py).                     *)
(*                                                                         *)
(* Times are fixed-point: one unit is 0.1 s, so 0.6 s is 6 and 2.5 s is 25.*)
(* The code's floats are taken as exact decimals.                          *)
(* Python dicts are objects: a turn is an address into `heap`, a list of   *)
(* turns is a sequence of addresses, s.copy() allocates a fresh address,   *)
(* and an assignment s["end"] = x updates the heap cell, so every list     *)
(* that holds the address sees it.                                         *)
(***************************************************************************)
EXTENDS Integers, Sequences, FiniteSets, TLC

VARIABLES
    rows,     \* the turn records as load_segments_csv returned them (values)
    asr,      \* the utterance list load_asr_json returned
    heap,     \* address -> turn record (dict) ; addresses are 1..Len(heap)
    input,    \* the list load_segments_csv returned (addresses)
    segs,     \* main's variable segs: the current list (addresses)
    arg,      \* the list handed to the pass that ran last (addresses)
    before,   \* the records of arg as they were when that pass was called
    pc,       \* position in main, or which single pass was called
    frame     \* the locals of a function that is run one loop iteration at
              \* a time, [fn |-> "main"] when every pass runs as one step

vars == <<rows, asr, heap, input, segs, arg, before, pc, frame>>

----------------------------------------------------------------------------
(* Program constants, in tenths of a second. *)
MIN_GAP_SAME_SPK == 6
SHORT_INTRUSION == 12
COLLAR == 2
MIN_SEG_DURATION == 25

(* Bounds of the model. *)
MaxLen == 4

----------------------------------------------------------------------------
(* Small helpers. *)
Max(a, b) == IF a >= b THEN a ELSE b
Min(a, b) == IF a <= b THEN a ELSE b
Last(s) == s[Len(s)]
Range(s) == {s[k] : k \in 1..Len(s)}

Turn(sp, st, en) == [speaker |-> sp, start |-> st, end |-> en]
Utt(st, en, tx) == [start |-> st, end |-> en, text |-> tx]

dur(s) == s.end - s.start

(* The records a list of addresses denotes. *)
Deref(h, l) == [k \in 1..Len(l) |-> h[l[k]]]

----------------------------------------------------------------------------
(* text_stats: a text is a sequence of characters, each character a string: *)
(* an ASCII character is itself, any other is named by its code point       *)
(* ("U+55EF").                                                              *)

FILLERS ==
    { <<"U+55EF">>, <<"U+554A">>, <<"U+5443">>, <<"U+989D">>, <<"U+5BF9">>,
      <<"U+597D">>, <<"U+884C">>, <<"o","k">>, <<"o","k","a","y">>,
      <<"y","e","s">>, <<"y","e","a","h">>, <<"r","i","g","h","t">>,
      <<"U+55EF","U+54FC">>, <<"U+54C8","U+54C8">>, <<"l","o","l">>,
      <<"U+54E6">>, <<"U+54C7">>, <<"U+5662">>, <<"U+5514">>, <<"U+55F7">> }

Whitespace == {" "}
StripChars ==
    {"U+FF0C", "U+3002", "U+FF01", "U+FF1F", ",", ".", "!", "?", "U+2026", " "}

UpperCase == <<"A","B","C","D","E","F","G","H","I","J","K","L","M",
               "N","O","P","Q","R","S","T","U","V","W","X","Y","Z">>
LowerCase == <<"a","b","c","d","e","f","g","h","i","j","k","l","m",
               "n","o","p","q","r","s","t","u","v","w","x","y","z">>

(* str.lower() on one character. *)
LowerChar(c) ==
    IF \E k \in 1..26 : UpperCase[k] = c
    THEN LowerCase[CHOOSE k \in 1..26 : UpperCase[k] = c]
    ELSE c

Lower(t) == [k \in 1..Len(t) |-> LowerChar(t[k])]

(* " ".join(txts) *)
RECURSIVE Join(_)
Join(txts) ==
    IF Len(txts) = 0 THEN <<>>
    ELSE IF Len(txts) = 1 THEN txts[1]
    ELSE txts[1] \o <<" ">> \o Join(Tail(txts))

(* str.strip(chars): drop leading and trailing characters of the set. *)
RECURSIVE StripLeft(_, _)
StripLeft(t, chars) ==
    IF Len(t) > 0 /\ t[1] \in chars THEN StripLeft(Tail(t), chars) ELSE t

RECURSIVE StripRight(_, _)
StripRight(t, chars) ==
    IF Len(t) > 0 /\ t[Len(t)] \in chars
    THEN StripRight(SubSeq(t, 1, Len(t) - 1), chars)
    ELSE t

Strip(t, chars) == StripRight(StripLeft(t, chars), chars)

(* str.split(): the maximal runs of non-whitespace characters, in order. *)
RECURSIVE SplitFrom(_, _, _)
SplitFrom(t, cur, acc) ==
    IF Len(t) = 0
    THEN (IF Len(cur) = 0 THEN acc ELSE Append(acc, cur))
    ELSE IF t[1] \in Whitespace
         THEN SplitFrom(Tail(t), <<>>,
                        IF Len(cur) = 0 THEN acc ELSE Append(acc, cur))
         ELSE SplitFrom(Tail(t), Append(cur, t[1]), acc)

Split(t) == SplitFrom(t, <<>>, <<>>)

(* Variant of the window test: an utterance that touches the window is     *)
(* selected.                                                               *)
Overlaps_closed(u, s, e) == ~(u.end < s \/ u.start > e)

(* The utterances the window [s, e] selects, in their given order. *)
Overlaps(u, s, e) == ~(u.end <= s \/ u.start >= e)

RECURSIVE SelectTexts(_, _, _)
SelectTexts(utts, s, e) ==
    IF Len(utts) = 0 THEN <<>>
    ELSE IF Overlaps(utts[1], s, e)
         THEN <<utts[1].text>> \o SelectTexts(Tail(utts), s, e)
         ELSE SelectTexts(Tail(utts), s, e)

RECURSIVE DropEmpty(_)
DropEmpty(toks) ==
    IF Len(toks) = 0 THEN <<>>
    ELSE IF Len(toks[1]) = 0 THEN DropEmpty(Tail(toks))
         ELSE <<toks[1]>> \o DropEmpty(Tail(toks))

Tokens(utts, s, e) ==
    LET text == Strip(Join(SelectTexts(utts, s, e)), Whitespace)
        raw  == Split(text)
    IN DropEmpty([k \in 1..Len(raw) |-> Strip(raw[k], StripChars)])

FillerCount(toks) == Cardinality({k \in 1..Len(toks) : Lower(toks[k]) \in FILLERS})

(* text_stats returns (len(tokens), filler) with filler a float in [0,1].  *)
(* The ratio is kept exact as numerator and denominator; 1.0 is 1/1.       *)
text_stats(utts, s, e) ==
    LET toks == Tokens(utts, s, e) IN
    IF Len(toks) > 0
    THEN [tok |-> Len(toks), num |-> FillerCount(toks), den |-> Len(toks)]
    ELSE [tok |-> 0, num |-> 1, den |-> 1]

(* tok<=3 or filler>=0.5 *)
LowContent(st) == st.tok <= 3 \/ 2 * st.num >= st.den

----------------------------------------------------------------------------
(* The passes.  A loop state is [heap, out]: the heap and the list `out`   *)
(* of addresses built so far.                                              *)

(* Variant of the copy: out.append(s) without s.copy(), the output shares  *)
(* the record with the list it was read from.                              *)
AppendCopy_no_copy(st, s) ==
    [st EXCEPT !.out = Append(st.out, s)]

(* s.copy() followed by out.append(...): a fresh cell with s's fields. *)
AppendCopy(st, s) ==
    [st EXCEPT !.heap = Append(st.heap, st.heap[s]),
               !.out  = Append(st.out, Len(st.heap) + 1)]

(* Variants of merge_same_speaker's loop body: the gap compared with the   *)
(* collar; the first output turn extended instead of the last; the merge   *)
(* written to the "start" key.                                             *)
MergeStep_collar_gap(st, s) ==
    LET h == st.heap IN
    IF /\ Len(st.out) > 0
       /\ h[s].speaker = h[Last(st.out)].speaker
       /\ h[s].start - h[Last(st.out)].end < COLLAR
    THEN [st EXCEPT !.heap[Last(st.out)].end = Max(h[Last(st.out)].end, h[s].end)]
    ELSE AppendCopy(st, s)

MergeStep_extends_first(st, s) ==
    LET h == st.heap IN
    IF /\ Len(st.out) > 0
       /\ h[s].speaker = h[Last(st.out)].speaker
       /\ h[s].start - h[Last(st.out)].end < MIN_GAP_SAME_SPK
    THEN [st EXCEPT !.heap[st.out[1]].end = Max(h[st.out[1]].end, h[s].end)]
    ELSE AppendCopy(st, s)

MergeStep_start_key(st, s) ==
    LET h == st.heap IN
    IF /\ Len(st.out) > 0
       /\ h[s].speaker = h[Last(st.out)].speaker
       /\ h[s].start - h[Last(st.out)].end < MIN_GAP_SAME_SPK
    THEN [st EXCEPT !.heap[Last(st.out)].start = Max(h[Last(st.out)].end, h[s].end)]
    ELSE AppendCopy(st, s)

(* merge_same_speaker: the body of `for s in segs`. *)
MergeStep(st, s) ==
    LET h == st.heap IN
    IF /\ Len(st.out) > 0
       /\ h[s].speaker = h[Last(st.out)].speaker
       /\ h[s].start - h[Last(st.out)].end < MIN_GAP_SAME_SPK
    THEN [st EXCEPT !.heap[Last(st.out)].end = Max(h[Last(st.out)].end, h[s].end)]
    ELSE AppendCopy(st, s)

(* for s in segs *)
RECURSIVE MergeLoop(_, _)
MergeLoop(st, l) ==
    IF Len(l) = 0 THEN st ELSE MergeLoop(MergeStep(st, l[1]), Tail(l))

merge_same_speaker(h, l) == MergeLoop([heap |-> h, out |-> <<>>], l)

(* Variant of the test of swallow_intrusions: a turn of exactly            *)
(* SHORT_INTRUSION is not short.                                           *)
SwallowCondition_strictly_shorter(h, l, utts, i) ==
    /\ 0 < i /\ i < Len(l) - 1
    /\ h[l[i+1]].speaker # h[l[i]].speaker
    /\ h[l[i+1]].speaker # h[l[i+2]].speaker
    /\ dur(h[l[i+1]]) < SHORT_INTRUSION
    /\ LowContent(text_stats(utts, h[l[i+1]].start, h[l[i+1]].end))

(* swallow_intrusions: the test of one iteration of `while i<len(segs)`.   *)
(* i is the 0-based index of the code; segs[i] is l[i+1].                  *)
SwallowCondition(h, l, utts, i) ==
    /\ 0 < i /\ i < Len(l) - 1
    /\ h[l[i+1]].speaker # h[l[i]].speaker
    /\ h[l[i+1]].speaker # h[l[i+2]].speaker
    /\ dur(h[l[i+1]]) <= SHORT_INTRUSION
    /\ LowContent(text_stats(utts, h[l[i+1]].start, h[l[i+1]].end))

(* Variants of swallow_intrusions' loop body: the cursor advanced by 2 in  *)
(* every swallow; left.end set to cur.end in the same-speaker case.        *)
SwallowStep_skips_right(st, l, utts) ==
    LET h == st.heap
        i == st.i
    IN
    IF SwallowCondition(h, l, utts, i)
    THEN LET cur == l[i+1]
             L   == l[i]
             R   == l[i+2]
         IN IF h[L].speaker = h[R].speaker
            THEN [st EXCEPT !.heap[L].end = h[R].end, !.i = i + 2]
            ELSE IF dur(h[L]) >= dur(h[R])
                 THEN [st EXCEPT !.heap[L].end = Max(h[L].end, h[cur].end),
                                 !.i = i + 2]
                 ELSE [st EXCEPT !.heap[R].start = Min(h[R].start, h[cur].start),
                                 !.i = i + 2]
    ELSE [st EXCEPT !.out = Append(st.out, l[i+1]), !.i = i + 1]

SwallowStep_end_of_cur(st, l, utts) ==
    LET h == st.heap
        i == st.i
    IN
    IF SwallowCondition(h, l, utts, i)
    THEN LET cur == l[i+1]
             L   == l[i]
             R   == l[i+2]
         IN IF h[L].speaker = h[R].speaker
            THEN [st EXCEPT !.heap[L].end = h[cur].end, !.i = i + 2]
            ELSE IF dur(h[L]) >= dur(h[R])
                 THEN [st EXCEPT !.heap[L].end = Max(h[L].end, h[cur].end),
                                 !.i = i + 1]
                 ELSE [st EXCEPT !.heap[R].start = Min(h[R].start, h[cur].start),
                                 !.i = i + 1]
    ELSE [st EXCEPT !.out = Append(st.out, l[i+1]), !.i = i + 1]

(* Variant of swallow_intrusions' loop body: between neighbours of equal   *)
(* duration the right one absorbs.                                         *)
SwallowStep_ties_to_right(st, l, utts) ==
    LET h == st.heap
        i == st.i
    IN
    IF SwallowCondition(h, l, utts, i)
    THEN LET cur == l[i+1]
             L   == l[i]
             R   == l[i+2]
         IN IF h[L].speaker = h[R].speaker
            THEN [st EXCEPT !.heap[L].end = h[R].end, !.i = i + 2]
            ELSE IF dur(h[L]) > dur(h[R])
                 THEN [st EXCEPT !.heap[L].end = Max(h[L].end, h[cur].end),
                                 !.i = i + 1]
                 ELSE [st EXCEPT !.heap[R].start = Min(h[R].start, h[cur].start),
                                 !.i = i + 1]
    ELSE [st EXCEPT !.out = Append(st.out, l[i+1]), !.i = i + 1]

(* Variant of swallow_intrusions' loop body: the right turn absorbs by its *)
(* "end" key.                                                              *)
SwallowStep_right_end_key(st, l, utts) ==
    LET h == st.heap
        i == st.i
    IN
    IF SwallowCondition(h, l, utts, i)
    THEN LET cur == l[i+1]
             L   == l[i]
             R   == l[i+2]
         IN IF h[L].speaker = h[R].speaker
            THEN [st EXCEPT !.heap[L].end = h[R].end, !.i = i + 2]
            ELSE IF dur(h[L]) >= dur(h[R])
                 THEN [st EXCEPT !.heap[L].end = Max(h[L].end, h[cur].end),
                                 !.i = i + 1]
                 ELSE [st EXCEPT !.heap[R].end = Min(h[R].start, h[cur].start),
                                 !.i = i + 1]
    ELSE [st EXCEPT !.out = Append(st.out, l[i+1]), !.i = i + 1]

SwallowStep(st, l, utts) ==
    LET h == st.heap
        i == st.i
    IN
    IF SwallowCondition(h, l, utts, i)
    THEN LET cur == l[i+1]
             L   == l[i]
             R   == l[i+2]
         IN IF h[L].speaker = h[R].speaker
            THEN [st EXCEPT !.heap[L].end = h[R].end, !.i = i + 2]
            ELSE IF dur(h[L]) >= dur(h[R])
                 THEN [st EXCEPT !.heap[L].end = Max(h[L].end, h[cur].end),
                                 !.i = i + 1]
                 ELSE [st EXCEPT !.heap[R].start = Min(h[R].start, h[cur].start),
                                 !.i = i + 1]
    ELSE [st EXCEPT !.out = Append(st.out, l[i+1]), !.i = i + 1]

RECURSIVE SwallowLoop(_, _, _)
SwallowLoop(st, l, utts) ==
    IF st.i < Len(l) THEN SwallowLoop(SwallowStep(st, l, utts), l, utts) ELSE st

swallow_intrusions(h, l, utts) ==
    LET st == SwallowLoop([heap |-> h, out |-> <<>>, i |-> 0], l, utts)
    IN [heap |-> st.heap, out |-> st.out]

(* Variant of apply_collar's loop body: a gap of exactly COLLAR merges. *)
CollarStep_gap_of_collar(st, s) ==
    LET h    == st.heap
        prev == Last(st.out)
    IN
    IF h[s].start - h[prev].end <= COLLAR
    THEN IF dur(h[prev]) >= dur(h[s])
         THEN [st EXCEPT !.heap[prev].end = Max(h[prev].end, h[s].end)]
         ELSE [st EXCEPT !.heap[s].start = Min(h[s].start, h[prev].start),
                         !.out[Len(st.out)] = s]
    ELSE AppendCopy(st, s)

(* Variant of apply_collar's loop body: only turns of one speaker merge. *)
CollarStep_same_speaker(st, s) ==
    LET h    == st.heap
        prev == Last(st.out)
    IN
    IF h[s].speaker = h[prev].speaker /\ h[s].start - h[prev].end < COLLAR
    THEN IF dur(h[prev]) >= dur(h[s])
         THEN [st EXCEPT !.heap[prev].end = Max(h[prev].end, h[s].end)]
         ELSE [st EXCEPT !.heap[s].start = Min(h[s].start, h[prev].start),
                         !.out[Len(st.out)] = s]
    ELSE AppendCopy(st, s)

(* apply_collar: the body of `for s in segs[1:]`. *)
CollarStep(st, s) ==
    LET h    == st.heap
        prev == Last(st.out)
    IN
    IF h[s].start - h[prev].end < COLLAR
    THEN IF dur(h[prev]) >= dur(h[s])
         THEN [st EXCEPT !.heap[prev].end = Max(h[prev].end, h[s].end)]
         ELSE [st EXCEPT !.heap[s].start = Min(h[s].start, h[prev].start),
                         !.out[Len(st.out)] = s]
    ELSE AppendCopy(st, s)

(* for s in segs[1:] *)
RECURSIVE CollarLoop(_, _)
CollarLoop(st, l) ==
    IF Len(l) = 0 THEN st ELSE CollarLoop(CollarStep(st, l[1]), Tail(l))

(* out=[segs[0].copy()] raises IndexError on an empty list: apply_collar   *)
(* is the pass on a non-empty list, the actions Collar and CallCollar      *)
(* raise on an empty one.                                                  *)
apply_collar(h, l) ==
    CollarLoop(AppendCopy([heap |-> h, out |-> <<>>], l[1]), Tail(l))

(* Variants of enforce_min_duration's loop body: the duration of the last *)
(* output turn tested instead of s; the duration of s added to last.end.   *)
MinDurationStep_checks_last(st, s) ==
    LET h == st.heap IN
    IF Len(st.out) > 0 /\ dur(h[Last(st.out)]) < MIN_SEG_DURATION
    THEN [st EXCEPT !.heap[Last(st.out)].end = Max(h[Last(st.out)].end, h[s].end)]
    ELSE AppendCopy(st, s)

MinDurationStep_adds_duration(st, s) ==
    LET h == st.heap IN
    IF dur(h[s]) < MIN_SEG_DURATION /\ Len(st.out) > 0
    THEN [st EXCEPT !.heap[Last(st.out)].end = h[Last(st.out)].end + dur(h[s])]
    ELSE AppendCopy(st, s)

(* Variant of enforce_min_duration's loop body: a turn of exactly          *)
(* MIN_SEG_DURATION is short.                                              *)
MinDurationStep_short_or_equal(st, s) ==
    LET h == st.heap IN
    IF dur(h[s]) <= MIN_SEG_DURATION /\ Len(st.out) > 0
    THEN [st EXCEPT !.heap[Last(st.out)].end = Max(h[Last(st.out)].end, h[s].end)]
    ELSE AppendCopy(st, s)

(* enforce_min_duration: the body of `for s in segs`. *)
MinDurationStep(st, s) ==
    LET h == st.heap IN
    IF dur(h[s]) < MIN_SEG_DURATION /\ Len(st.out) > 0
    THEN [st EXCEPT !.heap[Last(st.out)].end = Max(h[Last(st.out)].end, h[s].end)]
    ELSE AppendCopy(st, s)

(* for s in segs *)
RECURSIVE MinDurationLoop(_, _)
MinDurationLoop(st, l) ==
    IF Len(l) = 0 THEN st ELSE MinDurationLoop(MinDurationStep(st, l[1]), Tail(l))

enforce_min_duration(h, l) == MinDurationLoop([heap |-> h, out |-> <<>>], l)

----------------------------------------------------------------------------
(* Inputs.  load_segments_csv returns the rows sorted by start, so a list  *)
(* of rows is built left to right: the first turn starts at 0 and has a    *)
(* duration of Durs, each next turn has a shape of Shapes, the pair of its *)
(* gap to the previous end (negative: an overlap, never reaching back      *)
(* before the previous start) and its duration.  The gaps lie on both      *)
(* sides of COLLAR and of MIN_GAP_SAME_SPK, the durations on both sides of *)
(* SHORT_INTRUSION and of MIN_SEG_DURATION.  Speakers are opaque and       *)
(* compared by equality only, so a turn's speaker is one already seen or   *)
(* the next new one.                                                       *)
Durs == {8, 25}
Shapes == {<<-3, 8>>, <<-3, 25>>, <<2, 8>>, <<2, 25>>, <<6, 25>>}

RECURSIVE SpeakerPatterns(_)
SpeakerPatterns(n) ==
    IF n = 0 THEN {<<>>}
    ELSE UNION {{Append(p, sp) :
                   sp \in 1..(Cardinality(Range(p)) + 1)} :
                p \in SpeakerPatterns(n - 1)}

(* The rows with speakers sp, first duration d1, and shape t[k] for the    *)
(* turns k >= 2.                                                           *)
RECURSIVE BuildRows(_, _, _, _)
BuildRows(sp, d1, t, k) ==
    IF k = 0 THEN <<>>
    ELSE IF k = 1 THEN <<Turn(sp[1], 0, d1)>>
    ELSE LET p  == BuildRows(sp, d1, t, k - 1)
             st == Last(p).end + t[k][1]
         IN Append(p, Turn(sp[k], st, st + t[k][2]))

(* Utterance texts: four content tokens, and four tokens of which two are  *)
(* fillers once stripped and lowered.                                      *)
TextContent == <<"a", " ", "b", " ", "c", " ", "d">>
TextFillers == <<"O", "K", ",", " ", "y", "e", "a", "h", " ", "a", " ", "b">>

(* The transcript is empty, or one utterance with content over [25, 33]:   *)
(* a turn that overlaps it is not swallowed, a turn that ends at 25 or     *)
(* starts at 33 only touches it.                                           *)
GridAsr == {<<>>, <<Utt(25, 33, TextContent)>>}

(* The worked cases of the specification's section 8, a sandwich whose     *)
(* middle turn carries four tokens, half of them fillers, and a middle     *)
(* turn of exactly SHORT_INTRUSION that carries exactly three tokens.      *)
LiteralCases ==
    { [rows |-> <<Turn(1, 0, 50), Turn(2, 50, 58), Turn(1, 58, 100)>>,
       asr  |-> <<Utt(50, 58, <<"U+55EF">>)>>],
      [rows |-> <<Turn(1, 0, 30), Turn(2, 31, 33)>>, asr |-> <<>>],
      [rows |-> <<Turn(1, 0, 40), Turn(2, 40, 48)>>, asr |-> <<>>],
      [rows |-> <<Turn(1, 0, 25), Turn(2, 25, 33), Turn(1, 33, 58)>>,
       asr  |-> <<Utt(25, 33, TextFillers)>>],
      [rows |-> <<Turn(1, 0, 25), Turn(2, 25, 37), Turn(3, 37, 62)>>,
       asr  |-> <<Utt(25, 37, <<"a", " ", "b", " ", "c">>)>>] }


----------------------------------------------------------------------------
(* main, and calls of the single passes. *)

MainFrame == [fn |-> "main"]

Init ==
    /\ \/ \E n \in 0..MaxLen :
             \E sp \in SpeakerPatterns(n), d1 \in Durs, t \in [2..n -> Shapes] :
                /\ rows = BuildRows(sp, d1, t, n)
                /\ asr \in GridAsr
       \/ \E c \in LiteralCases : rows = c.rows /\ asr = c.asr
    /\ heap = rows
    /\ input = [k \in 1..Len(rows) |-> k]
    /\ segs = [k \in 1..Len(rows) |-> k]
    /\ arg = <<>>
    /\ before = <<>>
    /\ pc = "loaded"
    /\ frame = MainFrame

(* segs = pass(segs): the pass returned res, control moves to `to`. *)
Returns(res, to) ==
    /\ arg' = segs
    /\ before' = Deref(heap, segs)
    /\ heap' = res.heap
    /\ segs' = res.out
    /\ pc' = to
    /\ UNCHANGED <<rows, asr, input, frame>>

(* The pass raised: main ends with the exception. *)
Raises(exc) ==
    /\ arg' = segs
    /\ before' = Deref(heap, segs)
    /\ pc' = exc
    /\ UNCHANGED <<rows, asr, input, heap, segs, frame>>

MergeFirst ==
    /\ pc = "loaded"
    /\ Returns(merge_same_speaker(heap, segs), "merged")

Swallow ==
    /\ pc = "merged"
    /\ Returns(swallow_intrusions(heap, segs, asr), "swallowed")

Collar ==
    /\ pc = "swallowed"
    /\ IF Len(segs) = 0
       THEN Raises("IndexError")
       ELSE Returns(apply_collar(heap, segs), "collared")

MinDuration ==
    /\ pc = "collared"
    /\ Returns(enforce_min_duration(heap, segs), "enforced")

MergeFinal ==
    /\ pc = "enforced"
    /\ Returns(merge_same_speaker(heap, segs), "done")

(* A pass called on the loaded list directly, and merge_same_speaker       *)
(* called on its own output.                                               *)
CallSwallow ==
    /\ pc = "loaded"
    /\ Returns(swallow_intrusions(heap, segs, asr), "swallow_intrusions")

CallCollar ==
    /\ pc = "loaded"
    /\ IF Len(segs) = 0
       THEN Raises("IndexError")
       ELSE Returns(apply_collar(heap, segs), "apply_collar")

CallMinDuration ==
    /\ pc = "loaded"
    /\ Returns(enforce_min_duration(heap, segs), "enforce_min_duration")

MergeAgain ==
    /\ pc = "merged"
    /\ Returns(merge_same_speaker(heap, segs), "merge_same_speaker")

Next ==
    \/ MergeFirst
    \/ Swallow
    \/ Collar
    \/ MinDuration
    \/ MergeFinal
    \/ CallSwallow
    \/ CallCollar
    \/ CallMinDuration
    \/ MergeAgain

Spec == Init /\ [][Next]_vars

----------------------------------------------------------------------------
(* Vocabulary of the properties. *)

Out == Deref(heap, segs)

AfterSwallow == pc \in {"swallowed", "swallow_intrusions"}

Returned == pc \notin {"loaded", "IndexError"}

Sorted(ts) == \A k \in 1..(Len(ts) - 1) : ts[k].start <= ts[k+1].start

WellFormed(ts) == \A k \in 1..Len(ts) : ts[k].end > ts[k].start

IllegalAdjacency(a, b) ==
    a.speaker = b.speaker /\ b.start - a.end < MIN_GAP_SAME_SPK

(* min(start over ref) <= t.start and t.end <= max(end over ref), for every *)
(* t of ts: the least start is at most x iff some start is.                 *)
Within(ts, ref) ==
    \A k \in 1..Len(ts) :
        /\ \E j \in 1..Len(ref) : ref[j].start <= ts[k].start
        /\ \E j \in 1..Len(ref) : ts[k].end <= ref[j].end

----------------------------------------------------------------------------
(* C1: when main has run its five passes, no two consecutive output turns  *)
(* have the same speaker and a gap below min_gap_same_speaker.             *)
C1_NoIllegalAdjacency ==
    pc = "done" =>
        LET o == Out IN
        \A k \in 1..(Len(o) - 1) : ~IllegalAdjacency(o[k], o[k+1])

(* The final merge joined turns, and two turns of one speaker stand next   *)
(* to each other in the output all the same.                               *)
C1_Witness ==
    /\ pc = "done"
    /\ Len(segs) < Len(arg)
    /\ \E k \in 1..(Len(Out) - 1) : Out[k].speaker = Out[k+1].speaker

(* C2: every turn of main's output but the first lasts at least            *)
(* min_segment_duration.                                                   *)
C2_MinDurationExceptHead ==
    pc = "done" =>
        LET o == Out IN
        \A k \in 2..Len(o) : dur(o[k]) >= MIN_SEG_DURATION

(* The input had a short turn after the first, and the output keeps a      *)
(* short head in front of other turns.                                     *)
C2_Witness ==
    /\ pc = "done"
    /\ Len(Out) >= 2
    /\ dur(Out[1]) < MIN_SEG_DURATION
    /\ \E k \in 2..Len(rows) : dur(rows[k]) < MIN_SEG_DURATION

(* C3: for a non-empty input the range main's output covers contains the   *)
(* range [first.start, last.end] of the input.                             *)
C3_CoverageNeverShrinks ==
    (pc = "done" /\ Len(rows) > 0) =>
        /\ Len(Out) > 0
        /\ Out[1].start <= rows[1].start
        /\ Last(Out).end >= Last(rows).end

(* C4: every turn swallow_intrusions does not append has its interval      *)
(* covered by the span of a turn of the pass's output.                     *)
C4_SwallowKeepsTime ==
    AfterSwallow =>
        \A k \in 1..Len(arg) :
            arg[k] \notin Range(segs) =>
                \E j \in 1..Len(Out) :
                    Out[j].start <= before[k].start /\ before[k].end <= Out[j].end

(* C5 as stated: the first and the last turn handed to swallow_intrusions  *)
(* are both in its output.                                                 *)
C5_FirstAndLastKept ==
    (AfterSwallow /\ Len(arg) >= 1) =>
        arg[1] \in Range(segs) /\ Last(arg) \in Range(segs)

(* C5 amended: the first turn is in the output, and the last turn is       *)
(* missing only as the right neighbour of a swallowed turn at index n-2    *)
(* whose two neighbours have the same speaker.                             *)
C5_FirstKeptLastOnlySkippedAsRight ==
    (AfterSwallow /\ Len(arg) >= 1) =>
        /\ segs[1] = arg[1]
        /\ Last(arg) \notin Range(segs) =>
              /\ Len(arg) >= 3
              /\ arg[Len(arg) - 1] \notin Range(segs)
              /\ before[Len(arg) - 2].speaker = before[Len(arg)].speaker
              /\ before[Len(arg) - 1].speaker # before[Len(arg)].speaker

(* The last turn was skipped as a right neighbour. *)
C5_Witness ==
    /\ AfterSwallow
    /\ Len(arg) >= 3
    /\ Last(arg) \notin Range(segs)

(* C6: merge_same_speaker applied to its own output returns the same       *)
(* turns.                                                                  *)
C6_MergeIdempotent ==
    pc = "merge_same_speaker" => Out = before

(* The first application merged turns and left two turns of one speaker    *)
(* next to each other.                                                     *)
C6_Witness ==
    /\ pc = "merge_same_speaker"
    /\ Len(before) < Len(rows)
    /\ \E k \in 1..(Len(before) - 1) : before[k].speaker = before[k+1].speaker

(* C7: the list every pass returns, and so main's output, is sorted by     *)
(* start.                                                                  *)
C7_SortedByStart ==
    Returned => LET o == Out IN Sorted(o)

(* A pass of main moved the start of a turn that is not the first of the   *)
(* output.                                                                 *)
C7_Witness ==
    /\ pc \in {"swallowed", "collared", "enforced", "done"}
    /\ \E k \in 2..Len(Out) :
          \A r \in 1..Len(rows) :
              ~(rows[r].speaker = Out[k].speaker /\ rows[r].start = Out[k].start)

(* C8: on an empty input no pass raises and the list stays empty.          *)
C8_EmptyInputNoOp ==
    Len(rows) = 0 => (pc # "IndexError" /\ Len(segs) = 0)

(* C9: a sandwich A, B, C (A and C of one speaker, B of another, B short   *)
(* and low-content, no overlap) leaves swallow_intrusions as the single    *)
(* turn A with end C.end, and main as that one turn.                       *)
Sandwich ==
    /\ Len(rows) = 3
    /\ rows[1].speaker = rows[3].speaker
    /\ rows[1].speaker # rows[2].speaker
    /\ rows[1].end <= rows[2].start
    /\ rows[2].end <= rows[3].start
    /\ dur(rows[2]) <= SHORT_INTRUSION
    /\ LowContent(text_stats(asr, rows[2].start, rows[2].end))

C9_SandwichBecomesOneTurn ==
    Sandwich =>
        /\ AfterSwallow =>
              /\ segs = <<arg[1]>>
              /\ Out = <<Turn(rows[1].speaker, rows[1].start, rows[3].end)>>
        /\ pc = "done" =>
              Out = <<Turn(rows[1].speaker, rows[1].start, rows[3].end)>>

(* main has finished on a sandwich whose middle turn has an utterance. *)
C9_Witness ==
    /\ Sandwich
    /\ pc = "done"
    /\ text_stats(asr, rows[2].start, rows[2].end).tok > 0

(* C10: no turn a pass returns, and no turn of main's output, starts       *)
(* before the least start or ends after the greatest end of the pass's     *)
(* input and of the loaded input.                                          *)
C10_WithinInputBounds ==
    (Returned /\ Len(rows) > 0) =>
        LET o == Out IN Within(o, before) /\ Within(o, rows)

(* main has finished and a turn of the output is longer than every input   *)
(* turn.                                                                   *)
C10_Witness ==
    /\ pc = "done"
    /\ \E k \in 1..Len(Out) : \A r \in 1..Len(rows) : dur(Out[k]) > dur(rows[r])

----------------------------------------------------------------------------
(* C11: a run of main leaves its inputs as they were loaded: no step       *)
(* changes the utterance list or the loaded list, and once the five passes *)
(* have run every record of the loaded list still has the speaker, start   *)
(* and end it was loaded with, and no record of the output is a record of  *)
(* the loaded list.                                                        *)
C11_RunIsPure ==
    [][/\ asr' = asr
       /\ input' = input
       /\ pc' = "done" =>
             /\ Deref(heap', input') = rows'
             /\ Range(segs') \cap Range(input') = {}]_vars

(* main has finished, a pass has written to a record in place (an output   *)
(* turn equals no loaded turn), and the transcript is not empty.           *)
C11_Witness ==
    /\ pc = "done"
    /\ Len(asr) > 0
    /\ \E k \in 1..Len(segs) : heap[segs[k]] \notin Range(rows)

----------------------------------------------------------------------------
(* Loaded inputs with a malformed interval.  load_segments_csv and         *)
(* load_asr_json convert and sort, they test no interval: a row or an      *)
(* utterance with end <= start is loaded like any other.                   *)
WellFormedUtts(utts) == \A k \in 1..Len(utts) : utts[k].end > utts[k].start

MalformedShapes == {<<2, 0>>, <<2, -5>>, <<6, 0>>}
MalformedAsr == {<<Utt(33, 25, TextContent)>>, <<Utt(25, 25, TextFillers)>>}

InitMalformed ==
    /\ \E n \in 1..(MaxLen - 1) :
          \E sp \in SpeakerPatterns(n), d1 \in Durs \cup {0, -5},
             t \in [2..n -> Shapes \cup MalformedShapes] :
             /\ rows = BuildRows(sp, d1, t, n)
             /\ Sorted(rows)
             /\ \/ ~WellFormed(rows) /\ asr \in GridAsr
                \/ WellFormed(rows) /\ asr \in MalformedAsr
    /\ heap = rows
    /\ input = [k \in 1..Len(rows) |-> k]
    /\ segs = [k \in 1..Len(rows) |-> k]
    /\ arg = <<>>
    /\ before = <<>>
    /\ pc = "loaded"
    /\ frame = MainFrame

SpecMalformed == InitMalformed /\ [][Next]_vars

(* C12: when a loaded turn or utterance has end <= start, no pass runs on  *)
(* the input: main stops with an error at the boundary, and no turn with a *)
(* zero or negative duration is ever returned.                             *)
C12_MalformedIsRejected ==
    (~WellFormed(rows) \/ ~WellFormedUtts(asr)) =>
        /\ pc \in {"loaded", "InvalidIntervalError"}
        /\ Returned => WellFormed(Out)

----------------------------------------------------------------------------
(* The three loops run one iteration at a time.  A pass is called on the   *)
(* loaded list; frame holds its locals out and i, where i is the 0-based   *)
(* index of the turn the next iteration reads (the cursor of the while     *)
(* loop, the position of the for loops).                                   *)

Running(fn) == pc = "running" /\ frame.fn = fn

Enters(fn, h, out, i) ==
    /\ arg' = segs
    /\ before' = Deref(heap, segs)
    /\ heap' = h
    /\ frame' = [fn |-> fn, out |-> out, i |-> i]
    /\ pc' = "running"
    /\ UNCHANGED <<rows, asr, input, segs>>

Iterates(st, i) ==
    /\ heap' = st.heap
    /\ frame' = [frame EXCEPT !.out = st.out, !.i = i]
    /\ UNCHANGED <<rows, asr, input, segs, arg, before, pc>>

(* return out *)
LoopReturns ==
    /\ pc = "running"
    /\ frame.i >= Len(arg)
    /\ segs' = frame.out
    /\ pc' = frame.fn
    /\ frame' = MainFrame
    /\ UNCHANGED <<rows, asr, input, heap, arg, before>>

SwallowEnter ==
    /\ pc = "loaded"
    /\ Enters("swallow_intrusions", heap, <<>>, 0)

SwallowIter ==
    /\ Running("swallow_intrusions")
    /\ frame.i < Len(arg)
    /\ LET st == SwallowStep([heap |-> heap, out |-> frame.out, i |-> frame.i],
                             arg, asr)
       IN Iterates(st, st.i)

CollarEnter ==
    /\ pc = "loaded"
    /\ IF Len(segs) = 0
       THEN Raises("IndexError")
       ELSE LET st == AppendCopy([heap |-> heap, out |-> <<>>], segs[1])
            IN Enters("apply_collar", st.heap, st.out, 1)

CollarIter ==
    /\ Running("apply_collar")
    /\ frame.i < Len(arg)
    /\ Iterates(CollarStep([heap |-> heap, out |-> frame.out], arg[frame.i + 1]),
                frame.i + 1)

MinDurationEnter ==
    /\ pc = "loaded"
    /\ Enters("enforce_min_duration", heap, <<>>, 0)

MinDurationIter ==
    /\ Running("enforce_min_duration")
    /\ frame.i < Len(arg)
    /\ Iterates(MinDurationStep([heap |-> heap, out |-> frame.out],
                                arg[frame.i + 1]),
                frame.i + 1)

NextSteps ==
    \/ SwallowEnter
    \/ SwallowIter
    \/ CollarEnter
    \/ CollarIter
    \/ MinDurationEnter
    \/ MinDurationIter
    \/ LoopReturns

SpecSteps == Init /\ [][NextSteps]_vars

(* The loop output so far, and the turn the next iteration reads. *)
LoopOut == Deref(heap, frame.out)
CurAddr == arg[frame.i + 1]

(* C13: an iteration of swallow_intrusions at cursor i drops segs[i]       *)
(* (appends nothing, moves the cursor on by 1 or 2) exactly when           *)
(* 0 < i < n-1, the speaker of segs[i] differs from the speakers of        *)
(* segs[i-1] and segs[i+1], its duration is at most SHORT_INTRUSION, and   *)
(* its text has at most 3 tokens or a filler ratio of at least 1/2;        *)
(* otherwise it appends segs[i] and moves the cursor on by exactly 1.      *)
C13_DroppedIffIntrusion ==
    [][(Running("swallow_intrusions") /\ frame.i < Len(arg)) =>
          LET i   == frame.i
              cur == heap[arg[i+1]]
              ts  == text_stats(asr, cur.start, cur.end)
              intrusion ==
                  /\ 0 < i /\ i < Len(arg) - 1
                  /\ cur.speaker # heap[arg[i]].speaker
                  /\ cur.speaker # heap[arg[i+2]].speaker
                  /\ cur.end - cur.start <= SHORT_INTRUSION
                  /\ (ts.tok <= 3 \/ 2 * ts.num >= ts.den)
          IN IF intrusion
             THEN frame'.out = frame.out /\ frame'.i \in {i + 1, i + 2}
             ELSE frame'.out = Append(frame.out, arg[i+1]) /\ frame'.i = i + 1
      ]_vars

(* The loop has dropped a turn without skipping its right neighbour and    *)
(* has appended a turn after it, and has kept an interior turn whose       *)
(* speaker differs from both neighbours.                                   *)
C13_Witness ==
    /\ Running("swallow_intrusions")
    /\ \E k \in 1..Min(frame.i, Len(arg) - 1) :
          arg[k] \notin Range(frame.out) /\ arg[k+1] \in Range(frame.out)
    /\ \E k \in 2..Min(frame.i, Len(arg) - 1) :
          /\ arg[k] \in Range(frame.out)
          /\ before[k].speaker # before[k-1].speaker
          /\ before[k].speaker # before[k+1].speaker

(* C14: when an iteration of swallow_intrusions drops cur and the speakers *)
(* of left and right differ, then if duration(left) >= duration(right)     *)
(* only left.end changes, to max(left.end, cur.end), and otherwise only    *)
(* right.start changes, to min(right.start, cur.start); nothing is         *)
(* appended and the cursor moves on by 1, to right.                        *)
C14_LongerNeighbourAbsorbs ==
    [][(/\ Running("swallow_intrusions")
        /\ 0 < frame.i /\ frame.i < Len(arg) - 1
        /\ heap[arg[frame.i]].speaker # heap[arg[frame.i + 2]].speaker
        /\ frame'.out # Append(frame.out, CurAddr)) =>
          LET L   == arg[frame.i]
              cur == CurAddr
              R   == arg[frame.i + 2]
          IN /\ IF heap[L].end - heap[L].start >= heap[R].end - heap[R].start
                THEN heap' = [heap EXCEPT ![L].end = Max(heap[L].end, heap[cur].end)]
                ELSE heap' = [heap EXCEPT ![R].start = Min(heap[R].start, heap[cur].start)]
             /\ frame'.out = frame.out
             /\ frame'.i = frame.i + 1
             /\ arg[frame'.i + 1] = R
      ]_vars

(* The loop has dropped a turn into its right neighbour, which starts      *)
(* earlier than it was passed in and is the turn the next iteration reads; *)
(* an earlier iteration has dropped a turn into a left neighbour that was  *)
(* as long as the right one.                                               *)
C14_Witness ==
    /\ Running("swallow_intrusions")
    /\ frame.i < Len(arg)
    /\ heap[CurAddr].start < before[frame.i + 1].start
    /\ \E k \in 1..(frame.i - 1) :
          /\ heap[arg[k]].end > before[k].end
          /\ before[k].speaker # before[k+2].speaker
          /\ dur(before[k]) = dur(before[k+2])

(* C15: an iteration of apply_collar on a turn s with last output turn     *)
(* prev: if s.start - prev.end < COLLAR, negative gaps included, the last  *)
(* output entry becomes one turn from min(prev.start, s.start) to          *)
(* max(prev.end, s.end) with the speaker of the longer of the two, prev on *)
(* ties, whatever the speakers, and the entries before it stay; otherwise  *)
(* s is appended as a new turn.  On (1, 0-3), (2, 3.1-3.3) the pass        *)
(* returns the single turn (1, 0-3.3).                                     *)
C15_CollarMergesIntoLonger ==
    [][/\ (Running("apply_collar") /\ frame.i < Len(arg)) =>
             LET prev == heap[Last(frame.out)]
                 s    == heap[CurAddr]
                 o    == LoopOut
                 n    == Len(frame.out)
             IN IF s.start - prev.end < COLLAR
                THEN /\ Len(frame'.out) = n
                     /\ heap'[Last(frame'.out)] =
                           Turn(IF prev.end - prev.start >= s.end - s.start
                                THEN prev.speaker ELSE s.speaker,
                                Min(prev.start, s.start), Max(prev.end, s.end))
                     /\ \A k \in 1..(n - 1) : heap'[frame'.out[k]] = o[k]
                ELSE Deref(heap', frame'.out) = Append(o, s)
       /\ (pc' = "apply_collar" /\ rows' = <<Turn(1, 0, 30), Turn(2, 31, 33)>>) =>
             Deref(heap', segs') = <<Turn(1, 0, 33)>>
      ]_vars

(* The loop has appended a turn and then replaced it by a longer turn of   *)
(* another speaker that overlapped it.                                     *)
C15_Witness ==
    /\ Running("apply_collar")
    /\ Len(frame.out) >= 2
    /\ \E k \in 2..frame.i :
          /\ Last(frame.out) = arg[k]
          /\ before[k].speaker # before[k-1].speaker
          /\ before[k].start < before[k-1].end
          /\ heap[arg[k]].start = before[k-1].start

(* C16: an iteration of enforce_min_duration on a turn s shorter than      *)
(* MIN_SEG_DURATION that is not the first turn of the list appends         *)
(* nothing: the end of the last output turn becomes max(last.end, s.end),  *)
(* no other field of any record changes, the speaker of s is lost.  A turn *)
(* of at least MIN_SEG_DURATION, and the first turn of the list when       *)
(* short, is appended as a new turn.  On (1, 0-4), (2, 4-4.8) the pass     *)
(* returns the single turn (1, 0-4.8).                                     *)
C16_ShortTurnExtendsLast ==
    [][/\ (Running("enforce_min_duration") /\ frame.i < Len(arg)) =>
             LET s == heap[CurAddr]
                 o == LoopOut
             IN IF s.end - s.start < MIN_SEG_DURATION /\ frame.i > 0
                THEN /\ frame'.out = frame.out
                     /\ heap' = [heap EXCEPT ![Last(frame.out)].end =
                                    Max(heap[Last(frame.out)].end, s.end)]
                ELSE /\ Deref(heap', frame'.out) = Append(o, s)
                     /\ Last(frame'.out) \notin Range(arg)
       /\ (pc' = "enforce_min_duration"
           /\ rows' = <<Turn(1, 0, 40), Turn(2, 40, 48)>>) =>
             Deref(heap', segs') = <<Turn(1, 0, 48)>>
      ]_vars

(* The loop has appended a short first turn and has extended it over a     *)
(* short turn of another speaker.                                          *)
C16_Witness ==
    /\ Running("enforce_min_duration")
    /\ frame.i >= 2
    /\ Len(frame.out) = 1
    /\ dur(before[1]) < MIN_SEG_DURATION
    /\ before[2].speaker # before[1].speaker
    /\ LoopOut[1].speaker = before[1].speaker
    /\ LoopOut[1].end > before[1].end

----------------------------------------------------------------------------
(* text_stats called on its own: text_stats(asr, s, e) for a window        *)
(* [s, e] = [10, 20] or [15, 25] and a list of at most MaxUtts utterances. *)
(* An utterance ends at the window's start, straddles it, lies inside,     *)
(* straddles or starts at the window's end, covers the window or lies      *)
(* before it.                                                              *)
MaxUtts == 2

UttSpans ==
    {<<0, 10>>, <<5, 15>>, <<12, 18>>, <<15, 25>>, <<20, 30>>, <<0, 30>>, <<0, 5>>}

(* Texts: "a b c d", "OK, yeah a b", the filler U+55EF, the empty text,    *)
(* ", !", "a b c", "Yeah." and " U+55EF U+54FC  right... ".                *)
UttTexts ==
    { TextContent, TextFillers, <<"U+55EF">>, <<>>, <<",", " ", "!">>,
      <<"a", " ", "b", " ", "c">>, <<"Y", "e", "a", "h", ".">>,
      <<" ", "U+55EF", "U+54FC", " ", " ", "r", "i", "g", "h", "t", ".", ".", ".", " ">> }

Utterances == {Utt(sp[1], sp[2], t) : sp \in UttSpans, t \in UttTexts}

InitStats ==
    /\ \E n \in 0..MaxUtts : asr \in [1..n -> Utterances]
    /\ \E w \in {<<10, 20>>, <<15, 25>>} :
          frame = [fn |-> "text_stats", s |-> w[1], e |-> w[2]]
    /\ rows = <<>>
    /\ heap = <<>>
    /\ input = <<>>
    /\ segs = <<>>
    /\ arg = <<>>
    /\ before = <<>>
    /\ pc = "called"

(* return len(tokens), filler *)
TextStatsReturns ==
    /\ pc = "called"
    /\ frame' = [fn   |-> "text_stats", s |-> frame.s, e |-> frame.e,
                 tok  |-> text_stats(asr, frame.s, frame.e).tok,
                 num  |-> text_stats(asr, frame.s, frame.e).num,
                 den  |-> text_stats(asr, frame.s, frame.e).den]
    /\ pc' = "text_stats"
    /\ UNCHANGED <<rows, asr, heap, input, segs, arg, before>>

NextStats == TextStatsReturns

SpecStats == InitStats /\ [][NextStats]_vars

(* What Python's text_stats counts on each text alone: tokens, fillers. *)
CountsOf(t) ==
    CASE t = TextContent -> <<4, 0>>
      [] t = TextFillers -> <<4, 2>>
      [] t = <<"U+55EF">> -> <<1, 1>>
      [] t = <<>> -> <<0, 0>>
      [] t = <<",", " ", "!">> -> <<0, 0>>
      [] t = <<"a", " ", "b", " ", "c">> -> <<3, 0>>
      [] t = <<"Y", "e", "a", "h", ".">> -> <<1, 1>>
      [] OTHER -> <<2, 2>>

(* The sum of the c-th count over the utterances with u.end > s and        *)
(* u.start < e.                                                            *)
RECURSIVE SumInWindow(_, _, _, _)
SumInWindow(utts, s, e, c) ==
    IF Len(utts) = 0 THEN 0
    ELSE (IF utts[1].end > s /\ utts[1].start < e THEN CountsOf(utts[1].text)[c] ELSE 0)
         + SumInWindow(Tail(utts), s, e, c)

(* C17: text_stats(utterances, s, e) returns as token count the number of  *)
(* tokens of the utterances with u.end > s and u.start < e, an utterance   *)
(* that only touches the window counts nothing; the filler ratio is the    *)
(* number of filler tokens over the token count; with no token the result  *)
(* is (0, 1.0); and with no overlapping utterance the result is            *)
(* low-content (at most 3 tokens or a ratio of at least 1/2).              *)
C17_TextStatsCountsWindow ==
    pc = "text_stats" =>
        LET tok == SumInWindow(asr, frame.s, frame.e, 1)
            fil == SumInWindow(asr, frame.s, frame.e, 2)
        IN /\ frame.tok = tok
           /\ tok > 0 => frame.num * tok = fil * frame.den /\ frame.den > 0
           /\ tok = 0 => frame.num = 1 /\ frame.den = 1
           /\ (\A k \in 1..Len(asr) : asr[k].end <= frame.s \/ asr[k].start >= frame.e) =>
                 /\ frame.tok = 0
                 /\ (frame.tok <= 3 \/ 2 * frame.num >= frame.den)

(* text_stats has returned for two utterances with tokens, of which the    *)
(* first overlaps the window and the second only touches it.               *)
C17_Witness ==
    /\ pc = "text_stats"
    /\ Len(asr) = 2
    /\ asr[1].end > frame.s /\ asr[1].start < frame.e
    /\ asr[2].start = frame.e
    /\ CountsOf(asr[1].text)[1] > 0
    /\ CountsOf(asr[2].text)[1] > 0
    /\ frame.tok = CountsOf(asr[1].text)[1]

----------------------------------------------------------------------------
(* C18: in the list apply_collar returns for a non-empty list sorted by    *)
(* start, every turn starts at least COLLAR after the end of the turn      *)
(* before it.                                                              *)
C18_CollarGapsAtLeastCollar ==
    (pc \in {"collared", "apply_collar"} /\ Sorted(before)) =>
        LET o == Out
        IN \A k \in 1..(Len(o) - 1) : o[k+1].start - o[k].end >= COLLAR

(* apply_collar has returned two turns or more after it merged a turn into *)
(* the last output entry and then replaced that entry by a longer turn.    *)
C18_Witness ==
    /\ pc = "apply_collar"
    /\ Len(segs) >= 2
    /\ \E k \in 3..Len(arg) :
          /\ arg[k] \in Range(segs)
          /\ before[k-1].start - before[k-2].end < COLLAR
          /\ heap[arg[k]].start < before[k-1].start

(* C19: when every loaded turn has end > start and the loaded list is      *)
(* sorted by start, every turn of the list a pass returns, and of the list *)
(* main ends with, has end > start; so has the left turn that              *)
(* swallow_intrusions extended to the end of the right one.                *)
C19_WellFormedPreserved ==
    (WellFormed(rows) /\ Sorted(rows) /\ Returned) => WellFormed(Out)

(* swallow_intrusions has returned in main after it set the end of a left  *)
(* turn to the end of the right turn of the same speaker.                  *)
C19_Witness ==
    /\ pc = "swallowed"
    /\ WellFormed(rows)
    /\ \E k \in 1..(Len(arg) - 2) :
          /\ arg[k] \in Range(segs)
          /\ arg[k+1] \notin Range(segs)
          /\ arg[k+2] \notin Range(segs)
          /\ before[k].speaker = before[k+2].speaker
          /\ before[k].end < before[k+2].end
          /\ heap[arg[k]].end = before[k+2].end

====
